---- MODULE Spec2Model ----
(***************************************************************************)
(* markov-chord: a first-order Markov model over chords                    *)
(* (src/src/generator.rs, ChordGenerator).                                 *)
(*                                                                         *)
(* The f32 entries of the matrices are modelled as exact rationals         *)
(* <<n, d>> kept in lowest terms; the two IEEE specials a division by      *)
(* zero produces are kept as d = 0: <<0, 0>> is NaN (0/0), <<1, 0>> is     *)
(* +inf (x/0, x > 0).  Matrix ids are the code's 0-based ids; sequences    *)
(* (Vec, slices) are TLA+ sequences, so code index i is position i + 1.    *)
(***************************************************************************)
EXTENDS Integers, Sequences, FiniteSets, TLC

\* ---------------------------------------------------------------- bounds
\* longest training sequence handed to ChordGenerator::new under SpecNew
MaxLen == 4
\* largest right_index / gen_index handed to probability_on, generate_range
MaxRight == 5
\* largest exponent handed directly to transit_pow, largest `number`
MaxPow == 5
MaxNumber == 2

\* The chords that occur as inputs.  "A" is Chord::default() (A major triad).
Chords == {"A", "C", "G"}
DefaultChord == "A"

\* The uniform variates u in [0, 1) the random source may return.
Draws == {<<0, 1>>, <<1, 2>>}

\* The training sequences the generation calls are explored on: the empty
\* one; one chord (N = 1); a 2-cycle and a 3-cycle (periodic chains, the
\* second with the default chord in the alphabet); two aperiodic chains
\* (N = 2, N = 3); a bipartite chain with a branching column.
Trainings ==
    { <<>>,
      <<"C">>,
      <<"C", "G">>,
      <<"A", "C", "G">>,
      <<"C", "C", "G">>,
      <<"C", "C", "G", "A">>,
      <<"C", "G", "C", "A">> }

\* ------------------------------------------------------------- rationals
RECURSIVE Gcd(_, _)
Gcd(a, b) == IF b = 0 THEN a ELSE Gcd(b, a % b)

Abs(a) == IF a < 0 THEN -a ELSE a

Zero == <<0, 1>>
One == <<1, 1>>
NaN == <<0, 0>>
Inf == <<1, 0>>

IsFinite(q) == q[2] # 0

\* n/d in lowest terms, d > 0
Norm(n, d) == LET g == Gcd(Abs(n), d) IN <<n \div g, d \div g>>

RAdd(p, q) ==
    LET l == (p[2] \div Gcd(p[2], q[2])) * q[2]
    IN  Norm(p[1] * (l \div p[2]) + q[1] * (l \div q[2]), l)

RMul(p, q) == Norm(p[1] * q[1], p[2] * q[2])

\* f32 division: x/0 is +inf for x > 0 and NaN for x = 0 (operands are >= 0)
RDiv(p, q) ==
    IF q[1] = 0 THEN (IF p[1] = 0 THEN NaN ELSE Inf)
    ELSE Norm(p[1] * q[2], p[2] * q[1])

RLeq(p, q) == p[1] * q[2] <= q[1] * p[2]

\* sum of f[i] for i in lo..hi
RECURSIVE RSum(_, _, _)
RSum(f, lo, hi) == IF hi < lo THEN Zero ELSE RAdd(RSum(f, lo, hi - 1), f[hi])

\* -------------------------------------------------------------- matrices
\* an N x N matrix is a function [0..N-1 -> [0..N-1 -> rational]], M[row][col]
Dim(M) == Cardinality(DOMAIN M)

MatMul(X, Y) ==
    [i \in DOMAIN X |-> [j \in DOMAIN X |->
        RSum([k \in DOMAIN X |-> RMul(X[i][k], Y[k][j])], 0, Dim(X) - 1)]]

\* the n-fold product T * T * ... * T (n >= 1), by repeated multiplication
RECURSIVE NaivePow(_, _)
NaivePow(T, n) == IF n = 1 THEN T ELSE MatMul(NaivePow(T, n - 1), T)

\* ------------------------------------------------- ChordGenerator::new
\* map_forward: the distinct chords in first-appearance order (lines 17-24)
RECURSIVE MapForward(_)
MapForward(seq) ==
    IF seq = <<>> THEN <<>>
    ELSE LET front == MapForward(SubSeq(seq, 1, Len(seq) - 1))
             c == seq[Len(seq)]
         IN  IF \E k \in 1..Len(front) : front[k] = c THEN front
             ELSE Append(front, c)

\* map_backward.get(chord): Some(id) is the id, None is -1
MapBackward(mf, c) ==
    IF \E k \in 1..Len(mf) : mf[k] = c
    THEN (CHOOSE k \in 1..Len(mf) : mf[k] = c) - 1
    ELSE -1

Known(mf, c) == MapBackward(mf, c) >= 0

\* a build that forgets the wrap-around pair of line 29
WrapCountNone(seq, mf, i, j) == 0

\* line 29: the wrap-around pair (last, first)
WrapCount(seq, mf, i, j) ==
    IF MapBackward(mf, seq[1]) = i /\ MapBackward(mf, seq[Len(seq)]) = j
    THEN 1 ELSE 0

\* lines 25-29: cooccur[(i, j)] counts the adjacent pairs (prev = j, cur = i)
Cooccur(seq, mf) ==
    [i \in 0..(Len(mf) - 1) |-> [j \in 0..(Len(mf) - 1) |->
        Cardinality({p \in 2..Len(seq) :
            MapBackward(mf, seq[p]) = i /\ MapBackward(mf, seq[p - 1]) = j})
        + WrapCount(seq, mf, i, j)]]

\* cooccur.column(j).sum()
RECURSIVE ColumnSum(_, _, _)
ColumnSum(M, j, hi) == IF hi < 0 THEN 0 ELSE ColumnSum(M, j, hi - 1) + M[hi][j]

\* a build that divides by the row sums instead
RECURSIVE RowSum(_, _, _)
RowSum(M, i, hi) == IF hi < 0 THEN 0 ELSE RowSum(M, i, hi - 1) + M[i][hi]

NormalizeByRow(co) ==
    [i \in DOMAIN co |-> [j \in DOMAIN co |->
        RDiv(<<co[i][j], 1>>, <<RowSum(co, i, Dim(co) - 1), 1>>)]]

\* lines 30-32: every column divided by its sum
Normalize(co) ==
    [i \in DOMAIN co |-> [j \in DOMAIN co |->
        RDiv(<<co[i][j], 1>>, <<ColumnSum(co, j, Dim(co) - 1), 1>>)]]

\* --------------------------------------------------------- transit_pow
\* fn transit_pow(&mut self, n) (lines 112-127).  The result is the record
\* [status, cache, ans]: the cache after the call and the matrix returned.
\* For n = 0 the call is neither the base case nor ever cached (an entry is
\* inserted only after the recursive call returns), so it calls
\* transit_pow(0 / 2) without end: the stack overflows and the process
\* aborts (status "Abort").
\* a binary exponentiation that forgets the odd factor of line 120
PowStepEvenOnly(pow_n_2, T, n) == MatMul(pow_n_2, pow_n_2)

PowStep(pow_n_2, T, n) ==
    IF n % 2 = 1 THEN MatMul(MatMul(pow_n_2, pow_n_2), T)
    ELSE MatMul(pow_n_2, pow_n_2)

\* a cache that files the result under the halved exponent
CacheInsertHalved(cache, n, ans) == ((n \div 2) :> ans) @@ cache

\* line 124: self.transit_pow_cache.insert(n, ans.clone())
CacheInsert(cache, n, ans) == (n :> ans) @@ cache

RECURSIVE TransitPow(_, _, _)
TransitPow(T, cache, n) ==
    IF n = 0 THEN [status |-> "Abort", cache |-> cache, ans |-> T]
    ELSE IF n = 1 THEN [status |-> "Ok", cache |-> cache, ans |-> T]
    ELSE IF n \in DOMAIN cache
    THEN [status |-> "Ok", cache |-> cache, ans |-> cache[n]]
    ELSE LET r == TransitPow(T, cache, n \div 2)
             ans == PowStep(r.ans, T, n)
         IN  IF r.status # "Ok" THEN r
             ELSE [status |-> "Ok", cache |-> CacheInsert(r.cache, n, ans),
                   ans |-> ans]

\* ------------------------------------------------------ probability_on
\* The error values are the code's message strings, named by their kind:
\*   "InvalidRange"  "Right index {} is not greater than {}, ..."  (line 59)
\*   "UnknownChord"  "Chord {} not appeared in training set."  (lines 69, 72)
\*   "EmptyModel"    "No chords are stored in the gererator!"  (lines 50, 96)
\* A result is [status, err, cache, value]: status "Ok" | "Err" | "Abort"
\* (a panic or a stack overflow: the process ends).
NoValue == <<>>

Result(status, err, cache, value) ==
    [status |-> status, err |-> err, cache |-> cache, value |-> value]

\* line 66: p_g.column(l) .* p_r_g.row(r)^T / p_r[(r, l)]
Conditional(p_g, p_r_g, p_r, l, r) ==
    [x \in DOMAIN p_g |-> RDiv(RMul(p_g[x][l], p_r_g[r][x]), p_r[r][l])]

RangeCheckFails(right_index, gen_index) == right_index <= gen_index

ProbabilityOn(mf, T, cache, left_chord, right_chord, right_index, gen_index) ==
    IF RangeCheckFails(right_index, gen_index)
    THEN Result("Err", "InvalidRange", cache, NoValue)
    ELSE IF ~Known(mf, left_chord)
    THEN Result("Err", "UnknownChord", cache, NoValue)
    ELSE IF ~Known(mf, right_chord)
    THEN Result("Err", "UnknownChord", cache, NoValue)
    ELSE LET l == MapBackward(mf, left_chord)
             r == MapBackward(mf, right_chord)
             a == TransitPow(T, cache, right_index - gen_index)
             b == TransitPow(T, a.cache, gen_index)
             c == TransitPow(T, b.cache, right_index)
         IN  IF a.status # "Ok" THEN Result("Abort", "StackOverflow", a.cache, NoValue)
             ELSE IF b.status # "Ok"
             THEN Result("Abort", "StackOverflow", b.cache, NoValue)
             ELSE IF c.status # "Ok"
             THEN Result("Abort", "StackOverflow", c.cache, NoValue)
             ELSE Result("Ok", "", c.cache, Conditional(b.ans, a.ans, c.ans, l, r))

\* ------------------------------------------------------- WeightedIndex
\* rand's WeightedIndex over a weight vector w (a function on 0..n-1):
\* new() fails on no item, on a weight that is not >= 0 (NaN) and on a total
\* of zero; sample() draws chosen = u * total and returns the number of
\* cumulative weights (of the first n - 1) that are <= chosen.
WeightedIndexOk(w) ==
    /\ DOMAIN w # {}
    /\ \A x \in DOMAIN w : w[x] # NaN /\ w[x][1] >= 0
    /\ \E x \in DOMAIN w : w[x][1] > 0

Sample(w, u) ==
    LET n == Cardinality(DOMAIN w)
        chosen == RMul(u, RSum(w, 0, n - 1))
    IN  Cardinality({i \in 0..(n - 2) : RLeq(RSum(w, 0, i), chosen)})

\* ------------------------------------------------------------ generate
\* pub fn generate(&self, init_chord, number, rng) (lines 38-54); `rng` is
\* the sequence of variates the random source will return.
RECURSIVE GenerateLoop(_, _, _, _, _)
GenerateLoop(mf, T, cur, number, rng) ==
    IF number = 0 THEN [status |-> "Ok", err |-> "", value |-> <<>>]
    ELSE LET column == [x \in DOMAIN T |-> T[x][cur]]
         IN  IF ~WeightedIndexOk(column)
             THEN [status |-> "Err", err |-> "EmptyModel", value |-> NoValue]
             ELSE LET gen == Sample(column, Head(rng))
                      rest == GenerateLoop(mf, T, gen, number - 1, Tail(rng))
                  IN  IF rest.status # "Ok" THEN rest
                      ELSE [rest EXCEPT !.value = <<mf[gen + 1]>> \o @]

\* line 40: map_backward[&init_chord] panics on a missing key
Generate(mf, T, init_chord, number, rng) ==
    IF ~Known(mf, init_chord)
    THEN [status |-> "Abort", err |-> "Panic", value |-> NoValue]
    ELSE GenerateLoop(mf, T, MapBackward(mf, init_chord), number, rng)

\* ------------------------------------------------------- generate_fill
\* fn generate_fill(&mut self, ans_vec, left_chord, right_chord, rng)
\* (lines 79-98).  ans_vec is the sub-slice [lo, hi) of the vector that
\* generate_range allocated.  The record s holds what the calls mutate:
\* s.ans (the vector), s.cache (self.transit_pow_cache) and s.rng (the
\* variates still to come), with s.status / s.err the Result.  The native
\* recursion is unrolled over s.stack, the calls still to be made, in the
\* order the code makes them: a call samples its midpoint, then runs its left
\* sub-call to completion (line 92), then its right sub-call (line 93); the
\* `?` of lines 86, 92 and 93 ends every pending call on the first failure.
\* s.queries and s.writes are the history of the run: every probability_on
\* call as <<lo, hi, right_index, gen_index>> (the caller's sub-slice and the
\* two indices it passed) and every slot written, in order.
Mid(len) == len \div 2

FillRightIndex(len) == len + 1

\* a query for the slot index `mid` itself instead of the position mid + 1
FillGenIndexMid(len) == Mid(len)

FillGenIndex(len) == Mid(len) + 1

Frame(lo, hi, left_chord, right_chord) ==
    [lo |-> lo, hi |-> hi, left |-> left_chord, right |-> right_chord]

\* lines 92-93: the two sub-slices ans_vec[0..mid] and ans_vec[(mid + 1)..]
SubCalls(f, mid, gened_chord) ==
    << Frame(f.lo, f.lo + mid, f.left, gened_chord),
       Frame(f.lo + mid + 1, f.hi, gened_chord, f.right) >>

\* the body of one call, the one on top of the stack
FillCall(mf, T, s) ==
    LET f == Head(s.stack)
        len == f.hi - f.lo
        mid == Mid(len)
        p == ProbabilityOn(mf, T, s.cache, f.left, f.right,
                           FillRightIndex(len), FillGenIndex(len))
        q == [s EXCEPT !.cache = p.cache,
                       !.queries = Append(@, <<f.lo, f.hi, FillRightIndex(len),
                                               FillGenIndex(len)>>)]
    IN  IF len = 0 THEN [s EXCEPT !.stack = Tail(@)]
        ELSE IF p.status # "Ok"
        THEN [q EXCEPT !.status = p.status, !.err = p.err]
        ELSE IF ~WeightedIndexOk(p.value)
        THEN [q EXCEPT !.status = "Err", !.err = "EmptyModel"]
        ELSE LET gen == Sample(p.value, Head(q.rng))
                 gened_chord == mf[gen + 1]
             IN  [q EXCEPT !.ans[f.lo + mid + 1] = gened_chord,
                           !.writes = Append(@, f.lo + mid),
                           !.rng = Tail(@),
                           !.stack = SubCalls(f, mid, gened_chord) \o Tail(@)]

RECURSIVE GenerateFill(_, _, _)
GenerateFill(mf, T, s) ==
    IF s.status # "Ok" \/ s.stack = <<>> THEN s
    ELSE GenerateFill(mf, T, FillCall(mf, T, s))

\* ------------------------------------------------------ generate_range
\* line 103: vec![Chord::default(); right_index - 2].  For right_index < 2
\* the usize subtraction overflows: a panic with overflow checks, and
\* without them a length of 2^64 - 1 or 2^64 - 2 whose allocation panics
\* ("capacity overflow").  Every build ends the call in a panic.
AnsLen(right_index) == right_index - 2

GenerateRange(mf, T, cache, left_chord, right_chord, right_index, rng) ==
    LET s0 == [status |-> "Ok", err |-> "", cache |-> cache, rng |-> rng,
               ans |-> <<>>, stack |-> <<>>, queries |-> <<>>, writes |-> <<>>]
    IN  IF AnsLen(right_index) < 0
        THEN [s0 EXCEPT !.status = "Abort", !.err = "Panic"]
        ELSE GenerateFill(mf, T,
                 [s0 EXCEPT
                    !.ans = [k \in 1..AnsLen(right_index) |-> DefaultChord],
                    !.stack = <<Frame(0, AnsLen(right_index), left_chord,
                                      right_chord)>>])

\* ------------------------------------------------------------- the state
VARIABLES
    pc,                \* "start" | "ready" | "returned" | "aborted"
    chord_seq,         \* the training sequence handed to new
    map_forward,       \* self.map_forward (map_backward is its inverse)
    transit,           \* self.transit
    transit_pow_cache, \* self.transit_pow_cache
    call,              \* the call in progress or just ended, with its arguments
    ret,               \* what it returned: [status, err, value]
    pre_cache,         \* self.transit_pow_cache when the call began
    hist               \* generate_fill's history: [queries, writes]

vars == <<pc, chord_seq, map_forward, transit, transit_pow_cache, call, ret,
          pre_cache, hist>>

EmptyCache == <<>>

NoCall == [op |-> "none", left |-> DefaultChord, right |-> DefaultChord,
           right_index |-> 0, gen_index |-> 0, number |-> 0, n |-> 0,
           rng |-> <<>>]

NoRet == [status |-> "none", err |-> "", value |-> NoValue]

NoHist == [queries |-> <<>>, writes |-> <<>>]

\* all sequences over S of length 0..n
SeqsUpTo(S, n) == UNION {[1..k -> S] : k \in 0..n}

Init ==
    /\ pc = "start"
    /\ chord_seq = <<>>
    /\ map_forward = <<>>
    /\ transit = <<>>
    /\ transit_pow_cache = EmptyCache
    /\ call = NoCall
    /\ ret = NoRet
    /\ pre_cache = EmptyCache
    /\ hist = NoHist

\* what the status of a call does to the process: a panic or a stack
\* overflow ends it, anything else returns to the caller
After(status) == IF status = "Abort" THEN "aborted" ELSE "returned"

\* pub fn new(chord_seq) (lines 16-34).  With an empty slice the two loops
\* and the allocation run on nothing and line 29 indexes chord_seq[0]:
\* an index-out-of-bounds panic.
New(seq) ==
    /\ pc = "start"
    /\ chord_seq' = seq
    /\ call' = [NoCall EXCEPT !.op = "new"]
    /\ pre_cache' = EmptyCache
    /\ hist' = NoHist
    /\ transit_pow_cache' = EmptyCache
    /\ IF seq = <<>>
       THEN /\ pc' = "aborted"
            /\ ret' = [NoRet EXCEPT !.status = "Abort", !.err = "Panic"]
            /\ UNCHANGED <<map_forward, transit>>
       ELSE /\ pc' = "ready"
            /\ ret' = [NoRet EXCEPT !.status = "Ok"]
            /\ map_forward' = MapForward(seq)
            /\ transit' = Normalize(Cooccur(seq, MapForward(seq)))

CallGenerate(init_chord, number, rng) ==
    /\ pc = "ready"
    /\ \E r \in {Generate(map_forward, transit, init_chord, number, rng)} :
           /\ pc' = After(r.status)
           /\ ret' = [status |-> r.status, err |-> r.err, value |-> r.value]
    /\ call' = [NoCall EXCEPT !.op = "generate", !.left = init_chord,
                              !.number = number, !.rng = rng]
    /\ pre_cache' = transit_pow_cache
    /\ hist' = NoHist
    /\ UNCHANGED <<chord_seq, map_forward, transit, transit_pow_cache>>

CallProbabilityOn(left_chord, right_chord, right_index, gen_index) ==
    /\ pc = "ready"
    /\ \E r \in {ProbabilityOn(map_forward, transit, transit_pow_cache,
                              left_chord, right_chord, right_index, gen_index)} :
           /\ pc' = After(r.status)
           /\ ret' = [status |-> r.status, err |-> r.err, value |-> r.value]
           /\ transit_pow_cache' = r.cache
    /\ call' = [NoCall EXCEPT !.op = "probability_on", !.left = left_chord,
                              !.right = right_chord,
                              !.right_index = right_index,
                              !.gen_index = gen_index]
    /\ pre_cache' = transit_pow_cache
    /\ hist' = NoHist
    /\ UNCHANGED <<chord_seq, map_forward, transit>>

CallGenerateRange(left_chord, right_chord, right_index, rng) ==
    /\ pc = "ready"
    /\ \E s \in {GenerateRange(map_forward, transit, transit_pow_cache,
                              left_chord, right_chord, right_index, rng)} :
           /\ pc' = After(s.status)
           /\ ret' = [status |-> s.status, err |-> s.err,
                      value |-> IF s.status = "Ok" THEN s.ans ELSE NoValue]
           /\ transit_pow_cache' = s.cache
           /\ hist' = [queries |-> s.queries, writes |-> s.writes]
    /\ call' = [NoCall EXCEPT !.op = "generate_range", !.left = left_chord,
                              !.right = right_chord,
                              !.right_index = right_index, !.rng = rng]
    /\ pre_cache' = transit_pow_cache
    /\ UNCHANGED <<chord_seq, map_forward, transit>>

CallTransitPow(n) ==
    /\ pc = "ready"
    /\ \E r \in {TransitPow(transit, transit_pow_cache, n)} :
           /\ pc' = After(r.status)
           /\ ret' = [status |-> r.status,
                      err |-> IF r.status = "Ok" THEN "" ELSE "StackOverflow",
                      value |-> IF r.status = "Ok" THEN r.ans ELSE NoValue]
           /\ transit_pow_cache' = r.cache
    /\ call' = [NoCall EXCEPT !.op = "transit_pow", !.n = n]
    /\ pre_cache' = transit_pow_cache
    /\ hist' = NoHist
    /\ UNCHANGED <<chord_seq, map_forward, transit>>

\* the caller takes the result; the generator is ready for the next call
Return ==
    /\ pc = "returned"
    /\ pc' = "ready"
    /\ call' = NoCall
    /\ ret' = NoRet
    /\ hist' = NoHist
    /\ pre_cache' = transit_pow_cache
    /\ UNCHANGED <<chord_seq, map_forward, transit, transit_pow_cache>>

\* the variates a call that fills `len` slots may consume
Rngs(len) == [1..len -> Draws]

Next ==
    \/ \E seq \in Trainings : New(seq)
    \/ \E c \in Chords, number \in 0..MaxNumber :
           \E rng \in Rngs(number) : CallGenerate(c, number, rng)
    \/ \E l \in Chords, r \in Chords, ri \in 0..MaxRight, gi \in 0..MaxRight :
           CallProbabilityOn(l, r, ri, gi)
    \/ \E l \in Chords, r \in Chords, ri \in 0..MaxRight :
           \E rng \in Rngs(IF ri < 2 THEN 0 ELSE ri - 2) :
               CallGenerateRange(l, r, ri, rng)
    \/ \E n \in 0..MaxPow : CallTransitPow(n)
    \/ Return

Spec == Init /\ [][Next]_vars

\* The builder alone, on every training sequence of length 0..MaxLen.
NextNew == \E seq \in SeqsUpTo(Chords, MaxLen) : New(seq)

SpecNew == Init /\ [][NextNew]_vars

\* ================================================================ claims
Ids == 0..(Len(map_forward) - 1)

Built == pc \in {"ready", "returned"} \/ (pc = "aborted" /\ call.op # "new")

Ended(op) == pc \in {"returned", "aborted"} /\ call.op = op

\* ------------------------------------------------------------------- C5
\* C5: building a model from an empty training sequence returns an
\* InvalidInput error value; the build does not panic.
C5_EmptyTrainingIsInvalidInput ==
    (call.op = "new" /\ chord_seq = <<>>)
        => (pc # "aborted" /\ ret.status = "Err" /\ ret.err = "InvalidInput")

\* ------------------------------------------------------------------- C6
\* the successor of position p with the sequence taken cyclically
CyclicNext(seq, p) == (p % Len(seq)) + 1

CyclicPairs(seq, cur, prev) ==
    Cardinality({p \in 1..Len(seq) :
                    seq[p] = prev /\ seq[CyclicNext(seq, p)] = cur})

Occurrences(seq, c) == Cardinality({p \in 1..Len(seq) : seq[p] = c})

FirstIndex(seq, c) ==
    CHOOSE p \in 1..Len(seq) :
        seq[p] = c /\ \A q \in 1..(p - 1) : seq[q] # c

\* C6: for every non-empty training sequence, transit[i][j] is the number of
\* cyclic positions where chord j is followed by chord i, divided by the
\* number of occurrences of chord j; ids are in first-appearance order.
C6_TransitIsCyclicFrequency ==
    pc = "ready" =>
        /\ {map_forward[k] : k \in 1..Len(map_forward)}
               = {chord_seq[p] : p \in 1..Len(chord_seq)}
        /\ \A a \in 1..Len(map_forward), b \in 1..Len(map_forward) :
               a < b => FirstIndex(chord_seq, map_forward[a])
                            < FirstIndex(chord_seq, map_forward[b])
        /\ DOMAIN transit = Ids
        /\ \A i \in Ids, j \in Ids :
               transit[i][j] =
                   RDiv(<<CyclicPairs(chord_seq, map_forward[i + 1],
                                      map_forward[j + 1]), 1>>,
                        <<Occurrences(chord_seq, map_forward[j + 1]), 1>>)

\* a built model where a repeated chord and the wrap-around pair both count:
\* [C, G, C, C] gives transit[C][C] = 2/3 (one of the pairs is last -> first)
C6_Witness ==
    /\ pc = "ready"
    /\ call.op = "new"
    /\ chord_seq = <<"C", "G", "C", "C">>
    /\ transit[0][0] = <<2, 3>>
    /\ transit[1][0] = <<1, 3>>

\* ------------------------------------------------------------------- C7
\* C7: for every non-empty training sequence (a single distinct chord
\* included) every column of the count matrix has a non-zero sum, and every
\* column of the built transition matrix sums to 1.
C7_ColumnsSumToOne ==
    pc = "ready" =>
        \A j \in Ids :
            /\ ColumnSum(Cooccur(chord_seq, map_forward), j,
                         Len(map_forward) - 1) # 0
            /\ \A i \in Ids : IsFinite(transit[i][j])
            /\ RSum([i \in Ids |-> transit[i][j]], 0, Len(map_forward) - 1)
                   = One

\* the degenerate alphabet: one distinct chord, repeated
C7_Witness ==
    /\ pc = "ready"
    /\ call.op = "new"
    /\ Len(chord_seq) >= 2
    /\ Len(map_forward) = 1
    /\ transit[0][0] = One

\* ------------------------------------------------------------------- C1
\* C1: with the left boundary at index 0 and the right boundary at
\* right_index = span + 1, a generate_range whose sampling succeeds returns
\* exactly span chords (one per interior index 1..right_index - 1), and
\* span = 0 returns the empty sequence.
C1_RangeReturnsSpanChords ==
    (/\ Ended("generate_range")
     /\ call.right_index >= 1
     /\ Known(map_forward, call.left)
     /\ Known(map_forward, call.right))
        => /\ ret.status = "Ok" => Len(ret.value) = call.right_index - 1
           /\ call.right_index = 1 => (ret.status = "Ok" /\ ret.value = <<>>)

\* ------------------------------------------------------------------- C2
UnknownArgument ==
    \/ /\ Ended("generate")
       /\ ~Known(map_forward, call.left)
    \/ /\ Ended("probability_on")
       /\ 0 < call.gen_index /\ call.gen_index < call.right_index
       /\ ~(Known(map_forward, call.left) /\ Known(map_forward, call.right))
    \/ /\ Ended("generate_range")
       /\ call.right_index >= 3
       /\ ~(Known(map_forward, call.left) /\ Known(map_forward, call.right))

\* C2: every operation that takes a chord (generate with its initial chord,
\* probability_on and generate_range with either boundary) returns an
\* UnknownChord error value when the chord is not in the training sequence;
\* it never panics.
C2_UnknownChordIsAnError ==
    UnknownArgument
        => (pc # "aborted" /\ ret.status = "Err" /\ ret.err = "UnknownChord")

\* ------------------------------------------------------------------- C3
\* C3: for every (right_index, gen_index) that does not satisfy
\* 0 < gen_index < right_index, probability_on terminates with an
\* InvalidRange error and leaves the power cache unchanged.
C3_BadRangeIsInvalidRange ==
    (/\ Ended("probability_on")
     /\ ~(0 < call.gen_index /\ call.gen_index < call.right_index)
     /\ Known(map_forward, call.left)
     /\ Known(map_forward, call.right))
        => /\ pc # "aborted"
           /\ ret.status = "Err"
           /\ ret.err = "InvalidRange"
           /\ transit_pow_cache = pre_cache

\* ------------------------------------------------------------------- C4
\* C4: with both boundaries in the alphabet, 0 < gen_index < right_index and
\* transit^right_index[r][l] = 0, probability_on returns a
\* ZeroProbabilityPath error instead of an Ok vector.
C4_ZeroPathIsAnError ==
    (/\ Ended("probability_on")
     /\ 0 < call.gen_index /\ call.gen_index < call.right_index
     /\ Known(map_forward, call.left)
     /\ Known(map_forward, call.right)
     /\ NaivePow(transit, call.right_index)
            [MapBackward(map_forward, call.right)]
            [MapBackward(map_forward, call.left)] = Zero)
        => (ret.status = "Err" /\ ret.err = "ZeroProbabilityPath")

\* ------------------------------------------------------------------- C8
\* C8: a generate_range on the same model with the same boundaries, the same
\* right_index and the same random draws returns the same result (the same
\* chords or the same error) whether the power cache was empty or already
\* populated when the call began.
C8_ResultIndependentOfCache ==
    Ended("generate_range") =>
        LET fresh == GenerateRange(map_forward, transit, EmptyCache,
                                   call.left, call.right, call.right_index,
                                   call.rng)
        IN  /\ ret.status = fresh.status
            /\ ret.err = fresh.err
            /\ ret.status = "Ok" => ret.value = fresh.ans

\* a successful fill of three slots on an aperiodic chain, with draws that
\* differ, that began with a populated cache: the fill reads one of its
\* entries (2) and has to add others
C8_Witness ==
    /\ Ended("generate_range")
    /\ chord_seq = <<"C", "C", "G">>
    /\ ret.status = "Ok"
    /\ Len(ret.value) = 3
    /\ 2 \in DOMAIN pre_cache
    /\ DOMAIN pre_cache # DOMAIN transit_pow_cache
    /\ \E k \in 1..3 : call.rng[k] # call.rng[1]
    /\ \E k \in 1..3 : ret.value[k] # ret.value[1]

\* ------------------------------------------------------------------- C9
\* C9: every transit_pow(n) with n >= 1 terminates and returns transit^n (the
\* n-fold product; power(a + b) = power(a) * power(b)); in every reachable
\* state each cache entry has a key k >= 2 and the value transit^k; a call
\* removes no entry and overwrites none with a different value; the base
\* matrix is the one the build produced.
C9_PowerCacheHoldsPowers ==
    Built =>
        /\ \A k \in DOMAIN transit_pow_cache :
               k >= 2 /\ transit_pow_cache[k] = NaivePow(transit, k)
        /\ \A k \in DOMAIN pre_cache :
               /\ k \in DOMAIN transit_pow_cache
               /\ transit_pow_cache[k] = pre_cache[k]
        /\ transit = Normalize(Cooccur(chord_seq, MapForward(chord_seq)))
        /\ (call.op = "transit_pow" /\ call.n >= 1) =>
               /\ pc = "returned"
               /\ ret.status = "Ok"
               /\ ret.value = NaivePow(transit, call.n)
               /\ \A a \in 1..(call.n - 1) :
                      ret.value = MatMul(NaivePow(transit, a),
                                         NaivePow(transit, call.n - a))

\* an odd exponent computed on top of a cached square, on an aperiodic chain
C9_Witness ==
    /\ Ended("transit_pow")
    /\ call.n = 5
    /\ ret.status = "Ok"
    /\ DOMAIN pre_cache = {2}
    /\ DOMAIN transit_pow_cache = {2, 5}
    /\ chord_seq = <<"C", "C", "G">>

\* ------------------------------------------------------------------ C10
SliceLen(q) == q[2] - q[1]

\* C10: every generate_fill call, at every depth, queries probability_on with
\* right_index = len + 1 and gen_index = len / 2 + 1 for its own sub-slice,
\* which satisfies 0 < gen_index < right_index; it writes the midpoint of its
\* sub-slice and the calls after it work on sub-slices that exclude that
\* slot; on success every slot is written exactly once, with a chord of the
\* alphabet, and none keeps the placeholder.
C10_FillWritesEachSlotOnce ==
    Ended("generate_range") =>
        /\ \A k \in 1..Len(hist.queries) :
               LET q == hist.queries[k] IN
               /\ SliceLen(q) >= 1
               /\ q[3] = SliceLen(q) + 1
               /\ q[4] = (SliceLen(q) \div 2) + 1
               /\ 0 < q[4] /\ q[4] < q[3]
               /\ 0 <= q[1] /\ q[2] <= call.right_index - 2
        /\ Len(hist.writes) <= Len(hist.queries)
        /\ \A k \in 1..Len(hist.writes) :
               /\ hist.writes[k]
                      = hist.queries[k][1] + (SliceLen(hist.queries[k]) \div 2)
               /\ \A j \in (k + 1)..Len(hist.queries) :
                      \/ hist.queries[j][2] <= hist.writes[k]
                      \/ hist.queries[j][1] > hist.writes[k]
        /\ ret.status = "Ok" =>
               /\ Len(hist.writes) = call.right_index - 2
               /\ \A slot \in 0..(call.right_index - 3) :
                      Cardinality({k \in 1..Len(hist.writes) :
                                      hist.writes[k] = slot}) = 1
               /\ \A k \in 1..Len(ret.value) :
                      /\ Known(map_forward, ret.value[k])
                      /\ ~Known(map_forward, DefaultChord)
                             => ret.value[k] # DefaultChord

\* a successful fill of three slots (both sub-calls of the top call write)
\* on an aperiodic chain whose alphabet does not hold the placeholder chord
C10_Witness ==
    /\ Ended("generate_range")
    /\ chord_seq = <<"C", "C", "G">>
    /\ ret.status = "Ok"
    /\ hist.writes = <<1, 0, 2>>
    /\ Len(hist.queries) = 3
    /\ ~Known(map_forward, DefaultChord)
    /\ \E k \in 1..3 : ret.value[k] = "G"

====
